---- MODULE Spec2Model ----
(***************************************************************************)
(* Model of the CineMatch recommendation backend (src/backend): the rule   *)
(* engine (rules.py), the ranker (utils.py), the service entry point       *)
(* (app.py) and the command-line entry point (recommend.py).               *)
(*                                                                         *)
(* Numbers.  The code computes in floating point; the model computes in    *)
(* exact rationals.  A weight is an integer number of thousandths until    *)
(* normalisation; a vector is a record [num, den] standing for the real    *)
(* vector num[i]/den, and a score is a record [n, d] standing for n/d,     *)
(* d > 0.  Strings that the code lower-cases, trims or searches are        *)
(* sequences of one-character strings; genre names are plain strings.      *)
(***************************************************************************)
EXTENDS Integers, Sequences, FiniteSets, TLC

VARIABLES
    entry,              \* which program runs: "service", "cli", or a unit harness
    pc,                 \* position in the program
    fav_movie_genres,   \* genre names found for the favourite movie
    favorite_genres,    \* genre names the user typed
    current_mood,       \* mood string handed to the program
    watching_context,   \* watching-context string handed to the program
    popularity_bias,    \* popularity bias string
    ml_model,           \* the correction oracle object: "unset", "none", "loaded"
    rule_vec,           \* result of build_rule_preference_vector
    ml_vec,             \* oracle output (or its substitute)
    context_key,        \* <<mood, normalized_context>>
    weights,            \* [alpha, beta] in hundredths
    final_pref,         \* alpha * rule_vec + beta * ml_vec
    model_file,         \* environment: state of model/xgb_model.json
    outcome,            \* "running", "ok", "crashed", "empty"
    items,              \* candidate items handed to the ranker
    ranked_items,       \* list of <<score, item>> after the last stage
    prev_items,         \* the list the last stage received
    top_n,              \* window of the last diversify_results call
    filtered_items,     \* result of the context filter's primary pass
    vec_item,           \* item handed to the vectorizers
    tmdb_vec,           \* result of tmdb.build_genre_vector, <<>> before the call
    service_vec,        \* result of app.build_genre_vector, <<>> before the call
    provider,           \* environment: what the content provider does per media type
    fetch_tasks,        \* per media type: state and result of its fetch
    completed,          \* media types in the order their fetches completed
    movies,             \* fetched movie items
    tv_shows,           \* fetched TV items
    ranked_movies,      \* list of <<score, item>> for movies
    ranked_tv,          \* list of <<score, item>> for TV
    response            \* what the caller receives

vars == <<entry, pc, fav_movie_genres, favorite_genres, current_mood,
          watching_context, popularity_bias, ml_model, rule_vec, ml_vec,
          context_key, weights, final_pref, model_file, outcome,
          items, ranked_items, prev_items, top_n, filtered_items,
          vec_item, tmdb_vec, service_vec, provider, fetch_tasks, completed,
          movies, tv_shows, ranked_movies, ranked_tv, response>>

flow_vars == <<vec_item, tmdb_vec, service_vec, provider, fetch_tasks, completed,
               movies, tv_shows, ranked_movies, ranked_tv, response>>

----------------------------------------------------------------------------
(* Generic helpers *)

Range(s) == {s[i] : i \in 1..Len(s)}

RECURSIVE SumSeq(_)
SumSeq(s) == IF s = <<>> THEN 0 ELSE s[1] + SumSeq(Tail(s))

Abs(x) == IF x < 0 THEN -x ELSE x

RECURSIVE GCD(_, _)
GCD(a, b) == IF b = 0 THEN Abs(a) ELSE GCD(b, a % b)

RECURSIVE GCDSeq(_)
GCDSeq(s) == IF s = <<>> THEN 0 ELSE GCD(s[1], GCDSeq(Tail(s)))

\* A vector num/den brought to lowest terms (the same real vector).
VecReduce(v) ==
    LET g == GCD(GCDSeq(v.num), v.den)
    IN  IF g = 0 THEN v
        ELSE [num |-> [i \in 1..Len(v.num) |-> v.num[i] \div g], den |-> v.den \div g]

\* Equality of the real vectors two records stand for.
VecEq(a, b) == VecReduce(a) = VecReduce(b)

----------------------------------------------------------------------------
(* rules.py : the genre taxonomy *)

GENRES == <<"Action", "Adventure", "Animation", "Comedy", "Crime",
            "Drama", "Fantasy", "Horror", "Mystery", "Romance",
            "Sci-Fi", "Thriller">>

InGenreIndex(g) == \E i \in 1..Len(GENRES) : GENRES[i] = g

GENRE_INDEX(g) == CHOOSE i \in 1..Len(GENRES) : GENRES[i] = g

Zeros == [i \in 1..Len(GENRES) |-> 0]

----------------------------------------------------------------------------
(* Strings of the mood / context lookups, as character sequences *)

s_friends  == <<"f","r","i","e","n","d","s">>
s_friend   == <<"f","r","i","e","n","d">>
s_partner  == <<"p","a","r","t","n","e","r">>
s_spouse   == <<"s","p","o","u","s","e">>
s_family   == <<"f","a","m","i","l","y">>
s_famil    == <<"f","a","m","i","l">>
s_alone    == <<"a","l","o","n","e">>
s_solo     == <<"s","o","l","o">>
s_happy    == <<"h","a","p","p","y">>
s_excited  == <<"e","x","c","i","t","e","d">>
s_romantic == <<"r","o","m","a","n","t","i","c">>
s_sad      == <<"s","a","d">>
s_scared   == <<"s","c","a","r","e","d">>
s_relaxed  == <<"r","e","l","a","x","e","d">>

----------------------------------------------------------------------------
(* rules.py : build_rule_preference_vector, weights in thousandths *)

\* mutant: the division is left out
normalize_skipped(v) == [num |-> v, den |-> 1]

\* v / v.sum() if v.sum() > 0 else v
_normalize(v) ==
    IF SumSeq(v) > 0 THEN VecReduce([num |-> v, den |-> SumSeq(v)])
    ELSE [num |-> v, den |-> 1]

\* for g in genres: if g in GENRE_INDEX: vec[GENRE_INDEX[g]] += 0.50
RECURSIVE AddFavorites(_, _)
AddFavorites(vec, genres) ==
    IF genres = <<>> THEN vec
    ELSE LET g == Head(genres)
             v == IF InGenreIndex(g)
                  THEN [vec EXCEPT ![GENRE_INDEX(g)] = @ + 500]
                  ELSE vec
         IN  AddFavorites(v, Tail(genres))

context_map(c) ==
    CASE c = s_friends -> <<<<"Comedy", 400>>, <<"Action", 350>>, <<"Adventure", 250>>>>
      [] c = s_partner -> <<<<"Romance", 600>>, <<"Drama", 400>>>>
      [] c = s_family  -> <<<<"Animation", 450>>, <<"Comedy", 350>>, <<"Adventure", 250>>>>
      [] c = s_alone   -> <<<<"Drama", 300>>, <<"Thriller", 250>>, <<"Mystery", 200>>>>
      [] OTHER         -> <<>>

\* mutant: the romantic boost of Romance at its earlier value 0.10
mood_map_old_weight(m) ==
    CASE m = s_happy    -> <<<<"Comedy", 500>>, <<"Romance", 300>>, <<"Adventure", 200>>>>
      [] m = s_excited  -> <<<<"Action", 500>>, <<"Thriller", 400>>, <<"Adventure", 300>>>>
      [] m = s_romantic -> <<<<"Romance", 100>>, <<"Drama", 400>>>>
      [] m = s_sad      -> <<<<"Drama", 500>>, <<"Romance", 300>>>>
      [] m = s_scared   -> <<<<"Horror", 600>>, <<"Thriller", 400>>>>
      [] m = s_relaxed  -> <<<<"Drama", 400>>, <<"Comedy", 300>>>>
      [] OTHER          -> <<>>

mood_map(m) ==
    CASE m = s_happy    -> <<<<"Comedy", 500>>, <<"Romance", 300>>, <<"Adventure", 200>>>>
      [] m = s_excited  -> <<<<"Action", 500>>, <<"Thriller", 400>>, <<"Adventure", 300>>>>
      [] m = s_romantic -> <<<<"Romance", 700>>, <<"Drama", 400>>>>
      [] m = s_sad      -> <<<<"Drama", 500>>, <<"Romance", 300>>>>
      [] m = s_scared   -> <<<<"Horror", 600>>, <<"Thriller", 400>>>>
      [] m = s_relaxed  -> <<<<"Drama", 400>>, <<"Comedy", 300>>>>
      [] OTHER          -> <<>>

\* for g, weight in boosts.items(): vec[GENRE_INDEX[g]] += weight
RECURSIVE AddBoosts(_, _)
AddBoosts(vec, boosts) ==
    IF boosts = <<>> THEN vec
    ELSE AddBoosts([vec EXCEPT ![GENRE_INDEX(Head(boosts)[1])] = @ + Head(boosts)[2]],
                   Tail(boosts))

\* for g in penalty_genres: vec[GENRE_INDEX[g]] *= factor   (factor in tenths)
RECURSIVE Penalize(_, _, _)
Penalize(vec, penalty_genres, tenths) ==
    IF penalty_genres = <<>> THEN vec
    ELSE Penalize([vec EXCEPT ![GENRE_INDEX(Head(penalty_genres))] = (@ * tenths) \div 10],
                  Tail(penalty_genres), tenths)

\* rules.py lines 93-110: the three conditional penalties, in source order
ApplyPenalties(vec, c, m) ==
    LET v1 == IF c = s_partner /\ m = s_romantic
              THEN Penalize(vec, <<"Action", "Horror", "Thriller", "Sci-Fi">>, 2)
              ELSE vec
        v2 == IF m = s_scared /\ c = s_alone
              THEN Penalize(v1, <<"Comedy", "Romance", "Animation">>, 2)
              ELSE v1
        v3 == IF c = s_friends /\ m = s_excited
              THEN Penalize(v2, <<"Drama", "Romance">>, 3)
              ELSE v2
    IN  v3

\* rules.py lines 20-91: the additive part
AdditiveBoosts(favorite_movie_genres, favorite_genres_, c, m) ==
    AddBoosts(AddBoosts(AddFavorites(AddFavorites(Zeros, favorite_movie_genres),
                                     favorite_genres_),
                        context_map(c)),
              mood_map(m))

\* mutant: the penalties applied to the normalized vector
build_penalties_after_normalize(favorite_movie_genres, favorite_genres_, c, m) ==
    LET n == _normalize(AdditiveBoosts(favorite_movie_genres, favorite_genres_, c, m))
    IN  VecReduce([num |-> ApplyPenalties([i \in 1..Len(GENRES) |-> 10 * n.num[i]], c, m),
                   den |-> 10 * n.den])

build_rule_preference_vector(favorite_movie_genres, favorite_genres_, c, m) ==
    _normalize(ApplyPenalties(AdditiveBoosts(favorite_movie_genres, favorite_genres_, c, m),
                              c, m))

----------------------------------------------------------------------------
(* String operations of str.lower(), str.strip() and the `in` operator *)

UpperCase == <<"A","B","C","D","E","F","G","H","I","J","K","L","M",
               "N","O","P","Q","R","S","T","U","V","W","X","Y","Z">>
LowerCase == <<"a","b","c","d","e","f","g","h","i","j","k","l","m",
               "n","o","p","q","r","s","t","u","v","w","x","y","z">>

LowerChar(c) ==
    IF \E i \in 1..Len(UpperCase) : UpperCase[i] = c
    THEN LowerCase[CHOOSE i \in 1..Len(UpperCase) : UpperCase[i] = c]
    ELSE c

\* str.lower()
Lower(s) == [i \in 1..Len(s) |-> LowerChar(s[i])]

Whitespace == {" ", "\t", "\n"}

RECURSIVE LStrip(_)
LStrip(s) == IF s # <<>> /\ Head(s) \in Whitespace THEN LStrip(Tail(s)) ELSE s

RECURSIVE RStrip(_)
RStrip(s) ==
    IF s # <<>> /\ s[Len(s)] \in Whitespace THEN RStrip(SubSeq(s, 1, Len(s) - 1)) ELSE s

\* str.strip()
Strip(s) == RStrip(LStrip(s))

\* sub in s
Contains(s, sub) ==
    \E i \in 1..(Len(s) - Len(sub) + 1) : SubSeq(s, i, i + Len(sub) - 1) = sub

----------------------------------------------------------------------------
(* app.py / recommend.py : context canonicalisation, mode selection, blend *)

\* app.py lines 140-148
service_normalized_context(raw) ==
    LET n == Strip(Lower(raw))
    IN  IF Contains(n, s_friend) THEN s_friends
        ELSE IF Contains(n, s_partner) THEN s_partner
        ELSE IF Contains(n, s_family) THEN s_family
        ELSE IF Contains(n, s_alone) THEN s_alone
        ELSE n

\* recommend.py lines 172-180
cli_normalized_context(raw) ==
    LET n == Strip(Lower(raw))
    IN  IF Contains(n, s_friend) THEN s_friends
        ELSE IF Contains(n, s_partner) \/ Contains(n, s_spouse) THEN s_partner
        ELSE IF Contains(n, s_family) \/ Contains(n, s_famil) THEN s_family
        ELSE IF Contains(n, s_alone) \/ Contains(n, s_solo) THEN s_alone
        ELSE n

\* app.py lines 134-138: keys of strong_contexts
strong_contexts ==
    {<<s_romantic, s_partner>>, <<s_scared, s_alone>>, <<s_excited, s_friends>>}

\* recommend.py lines 165-169: keys of strong_preference_contexts
strong_preference_contexts ==
    {<<s_romantic, s_partner>>, <<s_scared, s_alone>>, <<s_excited, s_friends>>}

\* mutant: hybrid weights for every key
service_weights_always_hybrid(key) == [alpha |-> 85, beta |-> 15]

\* app.py line 151: alpha, beta in hundredths
service_weights(key) ==
    IF key \in strong_contexts THEN [alpha |-> 100, beta |-> 0]
    ELSE [alpha |-> 85, beta |-> 15]

\* recommend.py lines 184-193
cli_weights(key) ==
    IF key \in strong_preference_contexts THEN [alpha |-> 100, beta |-> 0]
    ELSE [alpha |-> 85, beta |-> 15]

\* final_pref = alpha * rule_vec + beta * ml_vec   (app.py 153, recommend.py 196)
Blend(w, r, o) ==
    VecReduce([num |-> [i \in 1..Len(r.num) |->
                          w.alpha * r.num[i] * o.den + w.beta * o.num[i] * r.den],
               den |-> 100 * r.den * o.den])

\* list(set(fav_movie_genres + favorite_genres)): the distinct names, in some order
RECURSIVE Dedup(_)
Dedup(s) ==
    IF s = <<>> THEN <<>>
    ELSE IF Head(s) \in Range(Tail(s)) THEN Dedup(Tail(s))
    ELSE <<Head(s)>> \o Dedup(Tail(s))

all_favorite_genres == Dedup(fav_movie_genres \o favorite_genres)

\* the first argument both entry points pass to the rule engine
rule_movie_genres == IF fav_movie_genres # <<>> THEN fav_movie_genres ELSE all_favorite_genres

----------------------------------------------------------------------------
(* Scores: rationals n/d with d > 0, kept in lowest terms *)

RatReduce(r) ==
    LET g == GCD(r.n, r.d) IN [n |-> r.n \div g, d |-> r.d \div g]

RatAdd(a, b) == RatReduce([n |-> a.n * b.d + b.n * a.d, d |-> a.d * b.d])

RatLess(a, b) == a.n * b.d < b.n * a.d

RatZero == [n |-> 0, d |-> 1]

----------------------------------------------------------------------------
(* tmdb.py : TMDB_GENRE_MAP and build_genre_vector *)

TMDB_GENRE_IDS ==
    {28, 12, 16, 35, 80, 18, 14, 27, 9648, 10749, 878, 53,
     10759, 10762, 10763, 10764, 10765, 10766, 10767, 10768, 37}

TMDB_GENRE_MAP(gid) ==
    CASE gid = 28 -> "Action"      [] gid = 12 -> "Adventure"  [] gid = 16 -> "Animation"
      [] gid = 35 -> "Comedy"      [] gid = 80 -> "Crime"      [] gid = 18 -> "Drama"
      [] gid = 14 -> "Fantasy"     [] gid = 27 -> "Horror"     [] gid = 9648 -> "Mystery"
      [] gid = 10749 -> "Romance"  [] gid = 878 -> "Sci-Fi"    [] gid = 53 -> "Thriller"
      [] gid = 10759 -> "Action"   [] gid = 10762 -> "Animation"
      [] gid = 10763 -> "Drama"    [] gid = 10764 -> "Drama"   [] gid = 10765 -> "Sci-Fi"
      [] gid = 10766 -> "Drama"    [] gid = 10767 -> "Comedy"  [] gid = 10768 -> "Drama"
      [] gid = 37 -> "Drama"

\* TMDB_GENRE_MAP.get(gid, default)
TMDB_GENRE_MAP_get(gid, default) ==
    IF gid \in TMDB_GENRE_IDS THEN TMDB_GENRE_MAP(gid) ELSE default

\* tmdb.py lines 213-220: the binary genre vector of an item
RECURSIVE SetGenres(_, _)
SetGenres(vec, genre_ids) ==
    IF genre_ids = <<>> THEN vec
    ELSE LET genre == TMDB_GENRE_MAP_get(Head(genre_ids), "")
             v == IF genre # "" /\ InGenreIndex(genre)
                  THEN [vec EXCEPT ![GENRE_INDEX(genre)] = 1]
                  ELSE vec
         IN  SetGenres(v, Tail(genre_ids))

\* mutant: every identifier adds to the entry of its genre
RECURSIVE CountGenres(_, _)
CountGenres(vec, genre_ids) ==
    IF genre_ids = <<>> THEN vec
    ELSE LET genre == TMDB_GENRE_MAP_get(Head(genre_ids), "")
             v == IF genre # "" /\ InGenreIndex(genre)
                  THEN [vec EXCEPT ![GENRE_INDEX(genre)] = @ + 1]
                  ELSE vec
         IN  CountGenres(v, Tail(genre_ids))

build_genre_vector_counts(item) == CountGenres(Zeros, item.genre_ids)

build_genre_vector(item) == SetGenres(Zeros, item.genre_ids)

\* app.py lines 51-55: the service's own GENRE_INDEX, as the names by index
service_GENRES ==
    <<"Action", "Adventure", "Animation", "Comedy",
      "Crime", "Drama", "Fantasy", "Horror",
      "Mystery", "Romance", "Sci-Fi", "Thriller">>

service_GENRE_INDEX(g) == CHOOSE i \in 1..Len(service_GENRES) : service_GENRES[i] = g

\* app.py lines 86-93: the service's copy of the vectorizer
RECURSIVE service_SetGenres(_, _)
service_SetGenres(vec, genre_ids) ==
    IF genre_ids = <<>> THEN vec
    ELSE LET genre == TMDB_GENRE_MAP_get(Head(genre_ids), "")
             v == IF genre # "" /\ (\E i \in 1..Len(service_GENRES) : service_GENRES[i] = genre)
                  THEN [vec EXCEPT ![service_GENRE_INDEX(genre)] = 1]
                  ELSE vec
         IN  service_SetGenres(v, Tail(genre_ids))

service_build_genre_vector(item) ==
    service_SetGenres([i \in 1..Len(service_GENRES) |-> 0], item.genre_ids)

----------------------------------------------------------------------------
(* utils.py : rank_items.  A scored item is the pair <<score, item>>. *)

\* np.dot(preference_vector, vec)
Dot(preference_vector, vec) ==
    RatReduce([n |-> SumSeq([i \in 1..Len(vec) |-> preference_vector.num[i] * vec[i]]),
               d |-> preference_vector.den])

\* list.sort(key=lambda x: x[0], reverse=True): stable, compares scores only.
\* x goes behind every element whose score is not smaller than its own.
\* mutant: x goes in front of the elements of equal score
RECURSIVE InsertDescUnstable(_, _)
InsertDescUnstable(sorted, x) ==
    IF sorted = <<>> THEN <<x>>
    ELSE IF ~RatLess(x[1], Head(sorted)[1]) THEN <<x>> \o sorted
    ELSE <<Head(sorted)>> \o InsertDescUnstable(Tail(sorted), x)

RECURSIVE InsertDesc(_, _)
InsertDesc(sorted, x) ==
    IF sorted = <<>> THEN <<x>>
    ELSE IF RatLess(Head(sorted)[1], x[1]) THEN <<x>> \o sorted
    ELSE <<Head(sorted)>> \o InsertDesc(Tail(sorted), x)

RECURSIVE SortDescFrom(_, _)
SortDescFrom(sorted, rest) ==
    IF rest = <<>> THEN sorted
    ELSE SortDescFrom(InsertDesc(sorted, Head(rest)), Tail(rest))

SortByScoreDesc(scored) == SortDescFrom(<<>>, scored)

rank_items(items_, preference_vector) ==
    SortByScoreDesc([i \in 1..Len(items_) |->
                       <<Dot(preference_vector, build_genre_vector(items_[i])), items_[i]>>])

\* app.py lines 164-165: rank_items with the service's GENRE_INDEX and vectorizer
service_rank_items(items_, preference_vector) ==
    SortByScoreDesc([i \in 1..Len(items_) |->
                       <<Dot(preference_vector, service_build_genre_vector(items_[i])),
                         items_[i]>>])

----------------------------------------------------------------------------
(* recommend.py : diversify_results, apply_popularity_filter, genre filter *)

\* len(a & b) / len(a | b)
Jaccard(a, b) == RatReduce([n |-> Cardinality(a \cap b), d |-> Cardinality(a \cup b)])

\* recommend.py lines 275-282: the overlaps with the selected items, averaged
RECURSIVE OverlapScores(_, _)
OverlapScores(item_genres, selected) ==
    IF selected = <<>> THEN <<>>
    ELSE LET selected_genres == Range(Head(selected)[2].genre_ids)
             rest == OverlapScores(item_genres, Tail(selected))
         IN  IF item_genres # {} /\ selected_genres # {}
             THEN <<Jaccard(item_genres, selected_genres)>> \o rest
             ELSE rest

RECURSIVE RatSum(_)
RatSum(s) == IF s = <<>> THEN RatZero ELSE RatAdd(Head(s), RatSum(Tail(s)))

avg_overlap(item, selected) ==
    LET overlap_scores == OverlapScores(Range(item.genre_ids), selected)
    IN  IF overlap_scores = <<>> THEN RatZero
        ELSE LET t == RatSum(overlap_scores)
             IN  RatReduce([n |-> t.n, d |-> t.d * Len(overlap_scores)])

\* recommend.py lines 285-286: score * (1 - avg_overlap * 0.3)
adjusted_score(score, avg) ==
    RatReduce([n |-> score.n * (10 * avg.d - 3 * avg.n), d |-> score.d * 10 * avg.d])

\* recommend.py lines 266-288: the loop over the candidates
RECURSIVE SelectLoop(_, _)
SelectLoop(selected, candidates) ==
    IF candidates = <<>> THEN selected
    ELSE LET score == Head(candidates)[1]
             item == Head(candidates)[2]
         IN  IF selected = <<>>
             THEN SelectLoop(<<<<score, item>>>>, Tail(candidates))
             ELSE SelectLoop(
                    Append(selected, <<adjusted_score(score, avg_overlap(item, selected)), item>>),
                    Tail(candidates))

\* mutant: the rest of the list appended behind the window
diversify_results_keeps_tail(ranked, n) ==
    IF Len(ranked) <= n THEN ranked
    ELSE SortByScoreDesc(SelectLoop(<<>>, SubSeq(ranked, 1, n)))
           \o SubSeq(ranked, n + 1, Len(ranked))

\* recommend.py lines 258-292
diversify_results(ranked, n) ==
    IF Len(ranked) <= n THEN ranked
    ELSE SortByScoreDesc(SelectLoop(<<>>, SubSeq(ranked, 1, n)))

\* mutant: an item of popularity exactly 100 counts as popular
apply_popularity_filter_inclusive(ranked, bias) ==
    IF bias = "popular" THEN SelectSeq(ranked, LAMBDA p : p[2].popularity >= 1000)
    ELSE IF bias = "underrated" THEN SelectSeq(ranked, LAMBDA p : p[2].popularity < 1000)
    ELSE ranked

\* recommend.py lines 75-86; popularity in tenths (89.5 is 895, the limit 100 is 1000)
apply_popularity_filter(ranked, bias) ==
    IF bias = "popular" THEN SelectSeq(ranked, LAMBDA p : p[2].popularity > 1000)
    ELSE IF bias = "underrated" THEN SelectSeq(ranked, LAMBDA p : p[2].popularity < 1000)
    ELSE ranked

\* recommend.py lines 331-346: preferred names, banned names, threshold in hundredths
filter_rule(key) ==
    IF key = <<s_romantic, s_partner>>
    THEN [preferred |-> {"Romance", "Drama", "Comedy"}, banned |-> {"Horror", "Thriller"},
          threshold |-> 15]
    ELSE IF key = <<s_scared, s_alone>>
    THEN [preferred |-> {"Horror", "Thriller", "Mystery"},
          banned |-> {"Comedy", "Animation", "Romance"}, threshold |-> 5]
    ELSE IF key = <<s_excited, s_friends>>
    THEN [preferred |-> {"Action", "Comedy", "Adventure", "Thriller"}, banned |-> {},
          threshold |-> 20]
    ELSE [preferred |-> {}, banned |-> {}, threshold |-> 0]

\* recommend.py line 350
banned_genre_ids(key) == {gid \in TMDB_GENRE_IDS : TMDB_GENRE_MAP(gid) \in filter_rule(key).banned}

\* mutant: a banned genre is outweighed by a preferred genre or a good score
accepts_or_not_banned(key, p) ==
    LET movie_genre_ids == Range(p[2].genre_ids)
        movie_genres == {TMDB_GENRE_MAP_get(gid, "") : gid \in movie_genre_ids}
        has_preferred == \E g \in movie_genres : g \in filter_rule(key).preferred
        has_banned == \E gid \in movie_genre_ids : gid \in banned_genre_ids(key)
    IN  has_preferred \/ p[1].n * 100 >= filter_rule(key).threshold * p[1].d
          \/ ~has_banned

\* recommend.py lines 355-365: the test of one scored item
accepts(key, p) ==
    LET movie_genre_ids == Range(p[2].genre_ids)
        movie_genres == {TMDB_GENRE_MAP_get(gid, "") : gid \in movie_genre_ids}
        has_preferred == \E g \in movie_genres : g \in filter_rule(key).preferred
        has_banned == \E gid \in movie_genre_ids : gid \in banned_genre_ids(key)
    IN  (has_preferred \/ p[1].n * 100 >= filter_rule(key).threshold * p[1].d)
          /\ ~has_banned

\* recommend.py lines 353-366
primary_pass(ranked, key) == SelectSeq(ranked, LAMBDA p : accepts(key, p))

----------------------------------------------------------------------------
(* Inputs *)

NoVec == [num |-> Zeros, den |-> 1]

s_office == <<"o","f","f","i","c","e">>
s_bored  == <<"b","o","r","e","d">>

\* what a user may type as watching context
RawContexts ==
    { s_partner, s_friends, s_alone, s_family, s_office,
      <<" ","P","a","r","t","n","e","r"," ">>,
      <<"f","r","i","e","n","d","a","s">>,
      s_spouse, s_solo, s_famil,
      <<"p","a","r","t","n","e","r"," ","f","r","i","e","n","d">> }

\* what a user may type as mood
RawMoods ==
    { s_romantic, s_scared, s_excited, s_happy, s_bored,
      <<"R","o","m","a","n","t","i","c"," ">> }

\* genre names the title search may return (provider names), and typed genres
SearchedGenres == { <<>>, <<"Romance", "Drama">>, <<"Action", "Science Fiction">> }
TypedGenres    == { <<>>, <<"Drama">>, <<"Horror", "Comedy">> }

\* outputs the oracle's predict may return: any real 12-vector
OracleOutputs ==
    { [num |-> [i \in 1..12 |-> 1], den |-> 12],
      [num |-> [i \in 1..12 |-> IF i = 8 THEN 9 ELSE IF i = 10 THEN -1 ELSE 0], den |-> 10],
      [num |-> [i \in 1..12 |-> IF i \in {6, 10} THEN 1 ELSE 0], den |-> 2] }

ModelFiles == {"good", "missing", "broken"}

\* arguments of the rule-engine harness
MaxGenres == 2
GenreNames == {"Romance", "Drama", "Action", "Western"}
GenreLists == UNION {[1..n -> GenreNames] : n \in 0..MaxGenres}
RuleContexts == {s_partner, s_friends, s_alone, s_family, s_office}
RuleMoods == {s_happy, s_excited, s_romantic, s_sad, s_scared, s_relaxed, s_bored}

----------------------------------------------------------------------------
(* The service (app.py) and the command line program (recommend.py) *)

\* nothing fetched, ranked or answered yet
NoItem == [id |-> "", genre_ids |-> <<>>, popularity |-> 0]

NoTask == [state |-> "idle", result |-> <<>>]

\* the caller has received nothing yet
NoResponse == [kind |-> "none", movies |-> <<>>, tv |-> <<>>]

\* the provider has not been called for a media type
NotAsked == [kind |-> "unasked", page |-> <<>>]

InitFlowVars ==
    /\ vec_item = NoItem
    /\ tmdb_vec = <<>>
    /\ service_vec = <<>>
    /\ provider = [movie |-> NotAsked, tv |-> NotAsked]
    /\ fetch_tasks = [movie |-> NoTask, tv |-> NoTask]
    /\ completed = <<>>
    /\ movies = <<>>
    /\ tv_shows = <<>>
    /\ ranked_movies = <<>>
    /\ ranked_tv = <<>>
    /\ response = NoResponse

InitCommon ==
    /\ pc = "start"
    /\ ml_model = "unset"
    /\ rule_vec = NoVec
    /\ ml_vec = NoVec
    /\ context_key = <<>>
    /\ weights = [alpha |-> 0, beta |-> 0]
    /\ final_pref = NoVec
    /\ outcome = "running"
    /\ items = <<>>
    /\ ranked_items = <<>>
    /\ prev_items = <<>>
    /\ top_n = 0
    /\ filtered_items = <<>>
    /\ InitFlowVars

Init ==
    /\ entry \in {"service", "cli"}
    /\ fav_movie_genres \in SearchedGenres
    /\ favorite_genres \in TypedGenres
    /\ current_mood \in RawMoods
    /\ watching_context \in RawContexts
    /\ popularity_bias = "mix"
    /\ model_file \in ModelFiles
    /\ InitCommon

stage_vars == <<items, ranked_items, prev_items, top_n, filtered_items>>
input_vars == <<entry, fav_movie_genres, favorite_genres, popularity_bias, model_file>>

\* app.py lines 23-37: lifespan
Lifespan ==
    /\ entry = "service" /\ pc = "start"
    /\ ml_model' = IF model_file = "missing" THEN "none" ELSE "loaded"
    /\ pc' = "rule"
    /\ UNCHANGED <<input_vars, stage_vars, flow_vars, current_mood, watching_context, rule_vec,
                   ml_vec, context_key, weights, final_pref, outcome>>

\* recommend.py lines 94-95: no handler around load_model
CliLoadModel ==
    /\ entry = "cli" /\ pc = "start"
    /\ IF model_file = "missing"
       THEN /\ outcome' = "crashed" /\ pc' = "exit" /\ UNCHANGED ml_model
       ELSE /\ ml_model' = "loaded" /\ pc' = "input" /\ UNCHANGED outcome
    /\ UNCHANGED <<input_vars, stage_vars, flow_vars, current_mood, watching_context, rule_vec,
                   ml_vec, context_key, weights, final_pref>>

\* recommend.py lines 19-50: get_user_inputs.  Mood and context are stripped and
\* lower-cased as typed; favorite_genres stands for the names after .title().
get_user_inputs ==
    /\ entry = "cli" /\ pc = "input"
    /\ current_mood' = Lower(Strip(current_mood))
    /\ watching_context' = Lower(Strip(watching_context))
    /\ pc' = "rule"
    /\ UNCHANGED <<input_vars, stage_vars, flow_vars, ml_model, rule_vec, ml_vec, context_key,
                   weights, final_pref, outcome>>

\* app.py lines 112-122, recommend.py lines 113-140
BuildRuleVector ==
    /\ entry \in {"service", "cli"} /\ pc = "rule"
    /\ rule_vec' = build_rule_preference_vector(rule_movie_genres, all_favorite_genres,
                                               watching_context, current_mood)
    /\ pc' = "oracle"
    /\ UNCHANGED <<input_vars, stage_vars, flow_vars, current_mood, watching_context, ml_model,
                   ml_vec, context_key, weights, final_pref, outcome>>

\* app.py lines 125-131
ServicePredict ==
    /\ entry = "service" /\ pc = "oracle"
    /\ IF ml_model = "loaded" /\ model_file = "good"
       THEN \E o \in OracleOutputs : ml_vec' = o
       ELSE ml_vec' = rule_vec
    /\ pc' = "blend"
    /\ UNCHANGED <<input_vars, stage_vars, flow_vars, current_mood, watching_context, ml_model,
                   rule_vec, context_key, weights, final_pref, outcome>>

\* recommend.py line 152: no handler around predict
CliPredict ==
    /\ entry = "cli" /\ pc = "oracle"
    /\ IF model_file = "good"
       THEN /\ \E o \in OracleOutputs : ml_vec' = o
            /\ pc' = "blend" /\ UNCHANGED outcome
       ELSE /\ outcome' = "crashed" /\ pc' = "exit" /\ UNCHANGED ml_vec
    /\ UNCHANGED <<input_vars, stage_vars, flow_vars, current_mood, watching_context, ml_model,
                   rule_vec, context_key, weights, final_pref>>

\* app.py lines 134-153
ServiceBlend ==
    /\ entry = "service" /\ pc = "blend"
    /\ LET key == <<Strip(Lower(current_mood)), service_normalized_context(watching_context)>>
       IN  /\ context_key' = key
           /\ weights' = service_weights(key)
           /\ final_pref' = Blend(service_weights(key), rule_vec, ml_vec)
    /\ pc' = "blended"
    /\ UNCHANGED <<input_vars, stage_vars, flow_vars, current_mood, watching_context, ml_model,
                   rule_vec, ml_vec, outcome>>

\* recommend.py lines 165-196
CliBlend ==
    /\ entry = "cli" /\ pc = "blend"
    /\ LET key == <<Strip(Lower(current_mood)), cli_normalized_context(watching_context)>>
       IN  /\ context_key' = key
           /\ weights' = cli_weights(key)
           /\ final_pref' = Blend(cli_weights(key), rule_vec, ml_vec)
    /\ pc' = "blended"
    /\ UNCHANGED <<input_vars, stage_vars, flow_vars, current_mood, watching_context, ml_model,
                   rule_vec, ml_vec, outcome>>

Next ==
    \/ Lifespan
    \/ CliLoadModel
    \/ get_user_inputs
    \/ BuildRuleVector
    \/ ServicePredict
    \/ CliPredict
    \/ ServiceBlend
    \/ CliBlend

Spec == Init /\ [][Next]_vars

----------------------------------------------------------------------------
(* Harness of the rule engine: the function applied to drawn arguments *)

InitRules ==
    /\ entry = "rules"
    /\ fav_movie_genres \in GenreLists
    /\ favorite_genres \in GenreLists
    /\ current_mood \in RuleMoods
    /\ watching_context \in RuleContexts
    /\ popularity_bias = "mix"
    /\ model_file = "good"
    /\ InitCommon

CallRules ==
    /\ entry = "rules" /\ pc = "start"
    /\ rule_vec' = build_rule_preference_vector(fav_movie_genres, favorite_genres,
                                               watching_context, current_mood)
    /\ pc' = "returned"
    /\ UNCHANGED <<input_vars, stage_vars, flow_vars, current_mood, watching_context, ml_model,
                   ml_vec, context_key, weights, final_pref, outcome>>

NextRules == CallRules

SpecRules == InitRules /\ [][NextRules]_vars

----------------------------------------------------------------------------
(* Reference quantities of the specification text, used by the claims *)

SpecGenres == {"Action", "Adventure", "Animation", "Comedy", "Crime", "Drama",
               "Fantasy", "Horror", "Mystery", "Romance", "Sci-Fi", "Thriller"}

\* section 4.1 steps 3 and 4, as <<key, genre, thousandths>>
SpecContextTable ==
    { <<s_friends, "Comedy", 400>>, <<s_friends, "Action", 350>>, <<s_friends, "Adventure", 250>>,
      <<s_partner, "Romance", 600>>, <<s_partner, "Drama", 400>>,
      <<s_family, "Animation", 450>>, <<s_family, "Comedy", 350>>, <<s_family, "Adventure", 250>>,
      <<s_alone, "Drama", 300>>, <<s_alone, "Thriller", 250>>, <<s_alone, "Mystery", 200>> }

SpecMoodTable ==
    { <<s_happy, "Comedy", 500>>, <<s_happy, "Romance", 300>>, <<s_happy, "Adventure", 200>>,
      <<s_excited, "Action", 500>>, <<s_excited, "Thriller", 400>>, <<s_excited, "Adventure", 300>>,
      <<s_romantic, "Romance", 700>>, <<s_romantic, "Drama", 400>>,
      <<s_sad, "Drama", 500>>, <<s_sad, "Romance", 300>>,
      <<s_scared, "Horror", 600>>, <<s_scared, "Thriller", 400>>,
      <<s_relaxed, "Drama", 400>>, <<s_relaxed, "Comedy", 300>> }

SpecLookup(table, key, g) ==
    IF \E t \in table : t[1] = key /\ t[2] = g
    THEN (CHOOSE t \in table : t[1] = key /\ t[2] = g)[3]
    ELSE 0

Count(g, list) == Cardinality({i \in 1..Len(list) : list[i] = g})

\* section 4.1 step 5: the factor of genre g, in tenths
SpecPenaltyTenths(c, m, g) ==
    IF c = s_partner /\ m = s_romantic /\ g \in {"Action", "Horror", "Thriller", "Sci-Fi"} THEN 2
    ELSE IF m = s_scared /\ c = s_alone /\ g \in {"Comedy", "Romance", "Animation"} THEN 2
    ELSE IF c = s_friends /\ m = s_excited /\ g \in {"Drama", "Romance"} THEN 3
    ELSE 10

\* steps 1-4 for one genre, in thousandths
SpecAdditive(fmg, fg, c, m, g) ==
    500 * Count(g, fmg) + 500 * Count(g, fg)
      + SpecLookup(SpecContextTable, c, g) + SpecLookup(SpecMoodTable, m, g)

\* steps 1-6
SpecRuleVector(fmg, fg, c, m) ==
    LET raw == [i \in 1..12 |->
                  SpecAdditive(fmg, fg, c, m, GENRES[i]) * SpecPenaltyTenths(c, m, GENRES[i])]
    IN  IF SumSeq(raw) = 0 THEN [num |-> raw, den |-> 1]
        ELSE [num |-> raw, den |-> SumSeq(raw)]

\* some input contributes a signal
HasSignal(fmg, fg, c, m) ==
    \/ \E i \in 1..Len(fmg) : fmg[i] \in SpecGenres
    \/ \E i \in 1..Len(fg) : fg[i] \in SpecGenres
    \/ c \in {s_friends, s_partner, s_family, s_alone}
    \/ m \in {s_happy, s_excited, s_romantic, s_sad, s_scared, s_relaxed}

Idx(g) == CHOOSE i \in 1..12 : GENRES[i] = g

----------------------------------------------------------------------------
(* Claims about the rule engine, checked under SpecRules *)

\* C1: the vector returned by build_rule_preference_vector has only
\* non-negative entries and sums to 1, except when no input contributes a
\* signal, in which case it is all-zero.
C1_RuleVectorIsDistribution ==
    pc = "returned" =>
      /\ rule_vec.den > 0
      /\ \A i \in 1..12 : rule_vec.num[i] >= 0
      /\ IF HasSignal(fav_movie_genres, favorite_genres, watching_context, current_mood)
         THEN SumSeq(rule_vec.num) = rule_vec.den
         ELSE rule_vec.num = Zeros

\* a call with a duplicated favourite, an unknown genre name and a penalty applied
C1_Witness ==
    /\ pc = "returned"
    /\ fav_movie_genres = <<"Action", "Action">>
    /\ favorite_genres = <<"Western", "Romance">>
    /\ watching_context = s_partner /\ current_mood = s_romantic
    /\ SumSeq(rule_vec.num) = rule_vec.den
    /\ rule_vec.num[Idx("Action")] > 0

\* C2: build_rule_preference_vector returns exactly the vector of the six-step
\* algorithm of section 4.1; unrecognized names contribute nothing; and for
\* [Romance], [Drama], partner, romantic the two largest entries are Romance and
\* Drama while Action, Horror, Thriller and Sci-Fi are below one hundredth.
C2_RuleVectorMatchesAlgorithm ==
    pc = "returned" =>
      /\ VecEq(rule_vec,
               SpecRuleVector(fav_movie_genres, favorite_genres, watching_context, current_mood))
      /\ (/\ fav_movie_genres = <<"Romance">> /\ favorite_genres = <<"Drama">>
          /\ watching_context = s_partner /\ current_mood = s_romantic)
         => /\ \A i \in 1..12 \ {Idx("Romance"), Idx("Drama")} :
                 /\ rule_vec.num[i] < rule_vec.num[Idx("Romance")]
                 /\ rule_vec.num[i] < rule_vec.num[Idx("Drama")]
            /\ \A g \in {"Action", "Horror", "Thriller", "Sci-Fi"} :
                 100 * rule_vec.num[Idx(g)] < rule_vec.den

\* the end-to-end example of section 8 has been computed
C2_Witness ==
    /\ pc = "returned"
    /\ fav_movie_genres = <<"Romance">> /\ favorite_genres = <<"Drama">>
    /\ watching_context = s_partner /\ current_mood = s_romantic
    /\ rule_vec = [num |-> [i \in 1..12 |-> IF i = 10 THEN 18 ELSE IF i = 6 THEN 13 ELSE 0],
                   den |-> 31]

\* the same penalties applied to the normalized additive vector instead
NormalizeThenPenalize(fmg, fg, c, m) ==
    LET n == _normalize(AdditiveBoosts(fmg, fg, c, m))
    IN  [num |-> ApplyPenalties([i \in 1..12 |-> 10 * n.num[i]], c, m), den |-> 10 * n.den]

\* a genre of the partner+romantic penalty has weight before the penalties
PenalizedFavourite(fmg, fg) ==
    \E g \in {"Action", "Horror", "Thriller", "Sci-Fi"} : Count(g, fmg) + Count(g, fg) > 0

\* C3 as stated: for partner + romantic the result always differs from the
\* result of penalizing after normalization.
C3_OrderAlwaysMatters ==
    (pc = "returned" /\ watching_context = s_partner /\ current_mood = s_romantic) =>
      ~VecEq(rule_vec,
             NormalizeThenPenalize(fav_movie_genres, favorite_genres,
                                   watching_context, current_mood))

\* C3 (amended): penalties are applied before normalization (the result still
\* sums to 1), and for partner + romantic the result differs from penalizing
\* after normalization exactly when one of Action, Horror, Thriller, Sci-Fi is
\* among the favourites; otherwise both orders give the same vector.
C3_OrderMattersWhenPenalizedWeight ==
    (pc = "returned" /\ watching_context = s_partner /\ current_mood = s_romantic) =>
      /\ SumSeq(rule_vec.num) = rule_vec.den
      /\ ~VecEq(rule_vec,
                NormalizeThenPenalize(fav_movie_genres, favorite_genres,
                                      watching_context, current_mood))
           <=> PenalizedFavourite(fav_movie_genres, favorite_genres)

\* partner + romantic with an Action favourite: 0.5 * 0.2 over 2.7, not 0.1 over 3.1
C3_Witness ==
    /\ pc = "returned"
    /\ watching_context = s_partner /\ current_mood = s_romantic
    /\ fav_movie_genres = <<"Action">> /\ favorite_genres = <<"Romance">>
    /\ rule_vec.num[Idx("Action")] * 27 = rule_vec.den
    /\ ~VecEq(rule_vec,
              NormalizeThenPenalize(fav_movie_genres, favorite_genres,
                                    watching_context, current_mood))

----------------------------------------------------------------------------
(* Claims about normalisation, mode selection and blending, checked under Spec *)

\* section 4.3: the strong ContextKey pairs
SpecStrongPairs ==
    {<<s_romantic, s_partner>>, <<s_scared, s_alone>>, <<s_excited, s_friends>>}

\* section 4.2: the canonical watching context of a raw string
SpecCanonicalContext(raw) ==
    LET n == Strip(Lower(raw))
    IN  CASE Contains(n, s_friend) -> s_friends
          [] ~Contains(n, s_friend)
               /\ (Contains(n, s_partner) \/ Contains(n, s_spouse)) -> s_partner
          [] ~Contains(n, s_friend) /\ ~Contains(n, s_partner) /\ ~Contains(n, s_spouse)
               /\ (Contains(n, s_family) \/ Contains(n, s_famil)) -> s_family
          [] ~Contains(n, s_friend) /\ ~Contains(n, s_partner) /\ ~Contains(n, s_spouse)
               /\ ~Contains(n, s_family) /\ ~Contains(n, s_famil)
               /\ (Contains(n, s_alone) \/ Contains(n, s_solo)) -> s_alone
          [] OTHER -> n

\* C4: the blend weights are a function of the ContextKey alone: 1.0 / 0.0 for
\* the three strong pairs, so that the final vector is the rule vector whatever
\* the oracle returned, and 0.85 / 0.15 for every other key; the final vector is
\* alpha * rule_vector + beta * oracle_vector, in the service and in the CLI.
C4_BlendWeightsFromContextKey ==
    pc = "blended" =>
      /\ weights = IF context_key \in SpecStrongPairs
                   THEN [alpha |-> 100, beta |-> 0]
                   ELSE [alpha |-> 85, beta |-> 15]
      /\ context_key \in SpecStrongPairs => VecEq(final_pref, rule_vec)
      /\ \A i \in 1..12 :
           LET lhs == [num |-> <<final_pref.num[i]>>, den |-> final_pref.den]
               rhs == [num |-> <<weights.alpha * rule_vec.num[i] * ml_vec.den
                                   + weights.beta * ml_vec.num[i] * rule_vec.den>>,
                       den |-> 100 * rule_vec.den * ml_vec.den]
           IN  VecEq(lhs, rhs)

\* a strong pair reached from typed text, with an oracle output unlike the rule vector
C4_Witness ==
    /\ pc = "blended"
    /\ entry = "service"
    /\ context_key = <<s_romantic, s_partner>>
    /\ watching_context # s_partner
    /\ ~VecEq(ml_vec, rule_vec)
    /\ VecEq(final_pref, rule_vec)

\* C5: whenever the oracle is not loaded or its predict call fails, the rule
\* vector is substituted, the request continues without error and the final
\* preference vector equals the rule vector, in the service and in the CLI.
C5_OracleFailureFallsBack ==
    model_file # "good" =>
      /\ outcome # "crashed"
      /\ pc = "blended" => VecEq(final_pref, rule_vec)

\* C6: the mood and context the rule engine used for its lookups and penalty
\* conditions are the normalized pair that forms the ContextKey.
C6_RuleEngineSeesContextKey ==
    pc = "blended" =>
      VecEq(rule_vec,
            build_rule_preference_vector(rule_movie_genres, all_favorite_genres,
                                         context_key[2], context_key[1]))

\* C7: every entry point that builds a ContextKey canonicalizes the watching
\* context by the priority list friend / partner, spouse / family, famil /
\* alone, solo, and otherwise keeps the trimmed lower-cased string.
C7_ContextKeyIsCanonical ==
    pc = "blended" => context_key[2] = SpecCanonicalContext(watching_context)

----------------------------------------------------------------------------
(* Harness of the ranking stages: recommend.py lines 249-399 for one media   *)
(* list, with the window, the bias and the ContextKey drawn at their stage   *)

Item(id, genre_ids, popularity) ==
    [id |-> id, genre_ids |-> genre_ids, popularity |-> popularity]

\* popularity in tenths
ItemPool ==
    { Item("A", <<10749, 18>>, 1500),
      Item("B", <<27, 53>>, 500),
      Item("C", <<35>>, 1000),
      Item("D", <<>>, 1500),
      Item("E", <<28, 12, 99999>>, 500),
      Item("F", <<18, 10749, 10765>>, 1000) }

MaxItems == 3
MaxWindow == 2

\* the window of the two calls of diversify_results
CliWindow == 30

\* a provider page: sixteen Action items followed by one Comedy item
LongIds == <<"N01", "N02", "N03", "N04", "N05", "N06", "N07", "N08", "N09", "N10",
             "N11", "N12", "N13", "N14", "N15", "N16", "N17">>

LongList ==
    [i \in 1..17 |-> IF i <= 16 THEN Item(LongIds[i], <<28>>, 900 + i)
                     ELSE Item(LongIds[i], <<35>>, 1200)]

\* a Horror / Thriller item followed by two Horror items
HorrorList ==
    <<Item("B", <<27, 53>>, 500), Item("G", <<27>>, 951), Item("H", <<27>>, 843)>>

\* lists of distinct items of the pool, and the two lists above
ItemLists ==
    UNION { {l \in [1..n -> ItemPool] : \A i, j \in 1..n : i # j => l[i] # l[j]}
            : n \in 0..MaxItems }
      \cup {LongList, HorrorList}

\* preference vectors reaching the ranker: a rules-only vector, the all-zero
\* vector, and a hybrid vector with a negative oracle contribution
Prefs ==
    { [num |-> [i \in 1..12 |-> IF i = 10 THEN 18 ELSE IF i = 6 THEN 13 ELSE 0], den |-> 31],
      NoVec,
      [num |-> <<3, 1, 0, 2, 0, 1, 0, -1, 0, 1, 0, 3>>, den |-> 10] }

Biases == {"popular", "underrated", "mix", "Popular", ""}

StageKeys == strong_preference_contexts \cup {<<s_happy, s_family>>}

InitStages ==
    /\ entry = "stages"
    /\ pc = "start"
    /\ items \in ItemLists
    /\ final_pref \in Prefs
    /\ fav_movie_genres = <<>>
    /\ favorite_genres = <<>>
    /\ current_mood = <<>>
    /\ watching_context = <<>>
    /\ popularity_bias = "mix"
    /\ model_file = "good"
    /\ ml_model = "unset"
    /\ rule_vec = NoVec
    /\ ml_vec = NoVec
    /\ context_key = <<>>
    /\ weights = [alpha |-> 0, beta |-> 0]
    /\ outcome = "running"
    /\ ranked_items = <<>>
    /\ prev_items = <<>>
    /\ top_n = 0
    /\ filtered_items = <<>>
    /\ InitFlowVars

pipeline_vars == <<entry, fav_movie_genres, favorite_genres, current_mood, watching_context,
                   model_file, ml_model, rule_vec, ml_vec, weights, final_pref, outcome>>

\* recommend.py lines 249-255
Rank ==
    /\ entry = "stages" /\ pc = "start"
    /\ prev_items' = items
    /\ ranked_items' = rank_items(items, final_pref)
    /\ pc' = "ranked"
    /\ UNCHANGED <<pipeline_vars, flow_vars, items, top_n, filtered_items, popularity_bias, context_key>>

\* recommend.py lines 295-296
Diversify ==
    /\ entry = "stages" /\ pc = "ranked"
    /\ \E n \in (1..MaxWindow) \cup {CliWindow} :
         /\ top_n' = n
         /\ ranked_items' = diversify_results(ranked_items, n)
    /\ prev_items' = ranked_items
    /\ pc' = "diversified"
    /\ UNCHANGED <<pipeline_vars, flow_vars, items, filtered_items, popularity_bias, context_key>>

\* recommend.py lines 321-322
PopularityFilter ==
    /\ entry = "stages" /\ pc = "diversified"
    /\ \E b \in Biases :
         /\ popularity_bias' = b
         /\ ranked_items' = apply_popularity_filter(ranked_items, b)
    /\ prev_items' = ranked_items
    /\ pc' = "popfiltered"
    /\ UNCHANGED <<pipeline_vars, flow_vars, items, top_n, filtered_items, context_key>>

\* recommend.py lines 327-378: the primary pass, or nothing for other keys
GenreFilter ==
    /\ entry = "stages" /\ pc = "popfiltered"
    /\ \E key \in StageKeys :
         /\ context_key' = key
         /\ IF key \in strong_preference_contexts
            THEN /\ filtered_items' = primary_pass(ranked_items, key)
                 /\ pc' = "filtered"
            ELSE /\ UNCHANGED filtered_items
                 /\ pc' = "top"
    /\ prev_items' = ranked_items
    /\ UNCHANGED <<pipeline_vars, flow_vars, items, top_n, ranked_items, popularity_bias>>

\* mutant: the relaxed pass forgets the banned genres
relaxed_pass_keeps_banned(ranked, key) ==
    SubSeq(ranked, 1, IF Len(ranked) < 15 THEN Len(ranked) ELSE 15)

\* recommend.py line 386: the relaxed pass
relaxed_pass(ranked, key) ==
    LET kept == SelectSeq(ranked, LAMBDA p :
                    ~\E i \in 1..Len(p[2].genre_ids) : p[2].genre_ids[i] \in banned_genre_ids(key))
    IN  SubSeq(kept, 1, IF Len(kept) < 15 THEN Len(kept) ELSE 15)

\* recommend.py lines 383-395
RelaxFilter ==
    /\ entry = "stages" /\ pc = "filtered"
    /\ ranked_items' = IF Len(filtered_items) < 5
                       THEN relaxed_pass(ranked_items, context_key)
                       ELSE filtered_items
    /\ pc' = "top"
    /\ UNCHANGED <<pipeline_vars, flow_vars, items, top_n, prev_items, filtered_items,
                   popularity_bias, context_key>>

\* recommend.py lines 397-399
TopFive ==
    /\ entry = "stages" /\ pc = "top"
    /\ ranked_items' = SubSeq(ranked_items, 1, IF Len(ranked_items) < 5 THEN Len(ranked_items) ELSE 5)
    /\ pc' = "done"
    /\ UNCHANGED <<pipeline_vars, flow_vars, items, top_n, prev_items, filtered_items,
                   popularity_bias, context_key>>

NextStages ==
    \/ Rank
    \/ Diversify
    \/ PopularityFilter
    \/ GenreFilter
    \/ RelaxFilter
    \/ TopFive

SpecStages == InitStages /\ [][NextStages]_vars

----------------------------------------------------------------------------
(* Claims about the ranking stages, checked under SpecStages *)

\* names of the taxonomy an item's genre identifiers map to (section 4.4)
SpecItemGenres(item) ==
    {TMDB_GENRE_MAP(gid) : gid \in Range(item.genre_ids) \cap TMDB_GENRE_IDS} \cap SpecGenres

\* section 4.5: dot product of the preference vector and the binary vector
SpecScore(item, pref) ==
    RatReduce([n |-> SumSeq([i \in 1..12 |->
                               IF GENRES[i] \in SpecItemGenres(item) THEN pref.num[i] ELSE 0]),
               d |-> pref.den])

ItemsOf(scored) == [i \in 1..Len(scored) |-> scored[i][2]]

PositionIn(list, x) == CHOOSE i \in 1..Len(list) : list[i] = x

\* the same items, each as often
SameItems(a, b) ==
    /\ Len(a) = Len(b)
    /\ \A x \in Range(a) \cup Range(b) : Count(x, a) = Count(x, b)

\* C8: rank_items returns every input item exactly once, paired with the dot
\* product of the preference vector and its binary genre vector, ordered by
\* non-increasing score, items of equal score in their input order.
C8_RankIsStableSortByDotProduct ==
    pc = "ranked" =>
      /\ SameItems(ItemsOf(ranked_items), items)
      /\ \A j \in 1..Len(ranked_items) :
           ranked_items[j][1] = SpecScore(ranked_items[j][2], final_pref)
      /\ \A j, k \in 1..Len(ranked_items) :
           j < k =>
             /\ ~RatLess(ranked_items[j][1], ranked_items[k][1])
             /\ ranked_items[j][1] = ranked_items[k][1]
                  => PositionIn(items, ranked_items[j][2]) < PositionIn(items, ranked_items[k][2])

\* three items, the later two tied above the first one: F before A as in the input
C8_Witness ==
    /\ pc = "ranked"
    /\ Len(items) = 3
    /\ items[1].id = "E" /\ items[2].id = "F" /\ items[3].id = "A"
    /\ final_pref.den = 31
    /\ ranked_items[1][2].id = "F" /\ ranked_items[2][2].id = "A" /\ ranked_items[3][2].id = "E"
    /\ ranked_items[1][1] = ranked_items[2][1]

\* C9 as stated: the items beyond the window follow the re-ranked window in the
\* output, in their order and with their scores; an input no longer than the
\* window is returned unchanged.
C9_TailKeptAfterWindow ==
    pc = "diversified" =>
      IF Len(prev_items) <= top_n
      THEN ranked_items = prev_items
      ELSE /\ Len(ranked_items) = Len(prev_items)
           /\ SubSeq(ranked_items, top_n + 1, Len(ranked_items))
                = SubSeq(prev_items, top_n + 1, Len(prev_items))

\* C9 (amended): diversity re-ranking works on the top `window` items only;
\* when the input is longer than the window the output holds exactly the
\* window's items, each once, and none of the items beyond the window; an
\* input no longer than the window is returned unchanged.
C9_OnlyWindowReturned ==
    pc = "diversified" =>
      IF Len(prev_items) <= top_n
      THEN ranked_items = prev_items
      ELSE /\ Len(ranked_items) = top_n
           /\ SameItems(ItemsOf(ranked_items), ItemsOf(SubSeq(prev_items, 1, top_n)))
           /\ \A j \in (top_n + 1)..Len(prev_items) :
                prev_items[j][2] \notin Range(ItemsOf(ranked_items))

\* three ranked items and a window of two: the third is gone, the second penalized
C9_Witness ==
    /\ pc = "diversified"
    /\ Len(prev_items) = 3 /\ top_n = 2
    /\ Len(ranked_items) = 2
    /\ prev_items[1][2].id = "F" /\ prev_items[2][2].id = "A"
    /\ ranked_items[2][2].id = "A"
    /\ RatLess(ranked_items[2][1], prev_items[2][1])

\* section 4.7: preferred names, banned names, threshold in hundredths
SpecFilterTriple(key) ==
    CASE key = <<s_romantic, s_partner>> ->
           <<{"Romance", "Drama", "Comedy"}, {"Horror", "Thriller"}, 15>>
      [] key = <<s_scared, s_alone>> ->
           <<{"Horror", "Thriller", "Mystery"}, {"Comedy", "Animation", "Romance"}, 5>>
      [] key = <<s_excited, s_friends>> ->
           <<{"Action", "Comedy", "Adventure", "Thriller"}, {}, 20>>

SpecKeeps(key, p) ==
    /\ \/ SpecItemGenres(p[2]) \cap SpecFilterTriple(key)[1] # {}
       \/ p[1].n * 100 >= SpecFilterTriple(key)[3] * p[1].d
    /\ SpecItemGenres(p[2]) \cap SpecFilterTriple(key)[2] = {}

\* C10: the context filter runs only for the three strong pairs; its primary
\* pass keeps an item exactly when (it has a preferred genre or its score is at
\* least the threshold) and it has no banned genre, with the triples of section
\* 4.7; for any other ContextKey the list passes through unchanged.
C10_PrimaryPassKeepsExactly ==
    /\ pc = "filtered" =>
         /\ context_key \in SpecStrongPairs
         /\ filtered_items = SelectSeq(prev_items, LAMBDA p : SpecKeeps(context_key, p))
    /\ (pc = "top" /\ context_key \notin SpecStrongPairs) =>
         /\ ranked_items = prev_items
         /\ filtered_items = <<>>

\* romantic + partner: E is kept for its score alone, B is dropped as banned
C10_Witness ==
    /\ pc = "filtered"
    /\ context_key = <<s_romantic, s_partner>>
    /\ \E j \in 1..Len(prev_items) : prev_items[j][2].id = "B"
    /\ \E j \in 1..Len(filtered_items) :
         /\ filtered_items[j][2].id = "E"
         /\ SpecItemGenres(filtered_items[j][2]) \cap {"Romance", "Drama", "Comedy"} = {}
    /\ \A j \in 1..Len(filtered_items) : filtered_items[j][2].id # "B"
    /\ Len(filtered_items) < Len(prev_items)

\* section 4.7: an item with no banned genre of the pair
SpecNoBanned(key, p) == SpecItemGenres(p[2]) \cap SpecFilterTriple(key)[2] = {}

\* the first (at most) k elements
SpecFirst(list, k) == SubSeq(list, 1, IF Len(list) < k THEN Len(list) ELSE k)

\* C11: when fewer than 5 items pass the primary pass of the context filter,
\* the result is the first (at most) 15 items of the filter's input, in prior
\* order, that have no banned genre; when 5 or more pass, the primary result is
\* used unchanged; in both cases no item of the result has a banned genre.
C11_RelaxationYieldsFifteenUnbanned ==
    (pc = "top" /\ context_key \in SpecStrongPairs) =>
      /\ Len(filtered_items) < 5 =>
           ranked_items =
             SpecFirst(SelectSeq(prev_items, LAMBDA p : SpecNoBanned(context_key, p)), 15)
      /\ Len(filtered_items) >= 5 => ranked_items = filtered_items
      /\ \A j \in 1..Len(ranked_items) : SpecNoBanned(context_key, ranked_items[j])

\* scared + alone over the seventeen-item page with a zero preference: nothing
\* passes the primary pass, the Comedy item is banned, and of the sixteen
\* others fifteen are returned
C11_Witness ==
    /\ pc = "top"
    /\ context_key = <<s_scared, s_alone>>
    /\ Len(prev_items) = 17
    /\ \E j \in 1..Len(prev_items) : ~SpecNoBanned(context_key, prev_items[j])
    /\ Len(filtered_items) < 5
    /\ Len(ranked_items) = 15

\* section 4.8: what a bias keeps; popularity in tenths
SpecPopularityKeeps(bias, item) ==
    CASE bias = "popular" -> item.popularity > 1000
      [] bias = "underrated" -> item.popularity < 1000
      [] OTHER -> TRUE

Popularities(scored) == [i \in 1..Len(scored) |-> scored[i][2].popularity]

\* C12: apply_popularity_filter with bias "popular" keeps exactly the items of
\* popularity strictly above 100, with "underrated" exactly those strictly
\* below 100, with any other bias all of them; kept items keep their order and
\* scores. For popularities [50, 150, 100]: popular keeps [150], underrated
\* keeps [50], anything else keeps all three.
C12_PopularityFilterKeepsExactly ==
    pc = "popfiltered" =>
      /\ ranked_items =
           SelectSeq(prev_items, LAMBDA p : SpecPopularityKeeps(popularity_bias, p[2]))
      /\ Popularities(prev_items) = <<500, 1500, 1000>> =>
           Popularities(ranked_items) =
             CASE popularity_bias = "popular" -> <<1500>>
               [] popularity_bias = "underrated" -> <<500>>
               [] OTHER -> <<500, 1500, 1000>>

\* the example of section 8 under "popular": the item of popularity exactly
\* 100 is dropped
C12_Witness ==
    /\ pc = "popfiltered"
    /\ popularity_bias = "popular"
    /\ Popularities(prev_items) = <<500, 1500, 1000>>
    /\ Popularities(ranked_items) = <<1500>>

\* section 4.6: the mean Jaccard overlap of an item with the items before it
\* in the window, over the pairs whose genre-id sets are both non-empty
SpecAvgOverlap(window, j) ==
    LET own == Range(window[j][2].genre_ids)
        pairs == SelectSeq([k \in 1..(j - 1) |-> Range(window[k][2].genre_ids)],
                           LAMBDA g : g # {} /\ own # {})
        total == RatSum([k \in 1..Len(pairs) |-> Jaccard(own, pairs[k])])
    IN  IF pairs = <<>> THEN RatZero
        ELSE RatReduce([n |-> total.n, d |-> total.d * Len(pairs)])

\* a <= b for rationals of positive denominator
RatLeq(a, b) == a.n * b.d <= b.n * a.d

\* C18: for every item of the window and every preference vector reaching the
\* re-ranker, the adjusted score is score * (1 - 0.3 * avg_overlap) with
\* avg_overlap in [0, 1]; it lies between 0.7 * score and score, the first item
\* of the window keeps its score, and no item's score increases.
C18_PenaltyOnlyReduces ==
    (pc = "diversified" /\ Len(prev_items) > top_n) =>
      /\ Len(ranked_items) = top_n
      /\ \A j \in 1..top_n :
           LET score == prev_items[j][1]
               avg == SpecAvgOverlap(prev_items, j)
               adjusted == RatReduce([n |-> score.n * (10 * avg.d - 3 * avg.n),
                                      d |-> score.d * 10 * avg.d])
           IN  /\ RatLeq(RatZero, avg) /\ RatLeq(avg, [n |-> 1, d |-> 1])
               /\ <<adjusted, prev_items[j][2]>> \in Range(ranked_items)
               /\ RatLeq([n |-> 7 * score.n, d |-> 10 * score.d], adjusted)
               /\ RatLeq(adjusted, score)
               /\ j = 1 => adjusted = score

\* the part of C18 that does not depend on the sign of the score
C18_AdjustedScoreFormula ==
    (pc = "diversified" /\ Len(prev_items) > top_n) =>
      /\ Len(ranked_items) = top_n
      /\ \A j \in 1..top_n :
           LET score == prev_items[j][1]
               avg == SpecAvgOverlap(prev_items, j)
               adjusted == RatReduce([n |-> score.n * (10 * avg.d - 3 * avg.n),
                                      d |-> score.d * 10 * avg.d])
           IN  /\ RatLeq(RatZero, avg) /\ RatLeq(avg, [n |-> 1, d |-> 1])
               /\ <<adjusted, prev_items[j][2]>> \in Range(ranked_items)
               /\ RatLeq(RatZero, score) =>
                    /\ RatLeq([n |-> 7 * score.n, d |-> 10 * score.d], adjusted)
                    /\ RatLeq(adjusted, score)
               /\ j = 1 => adjusted = score

\* C19: whenever the fallback path of the context filter is taken, every item
\* that survived the primary pass is also in the relaxed result, and the
\* relaxed result has at least as many items as the primary pass produced.
C19_RelaxationOnlyWidens ==
    (pc = "top" /\ context_key \in SpecStrongPairs /\ Len(filtered_items) < 5) =>
      /\ Range(filtered_items) \subseteq Range(ranked_items)
      /\ Len(ranked_items) >= Len(filtered_items)

\* the size half of C19
C19_RelaxedAtLeastAsLong ==
    (pc = "top" /\ context_key \in SpecStrongPairs /\ Len(filtered_items) < 5) =>
      Len(ranked_items) >= Len(filtered_items)

----------------------------------------------------------------------------
(* From the blended preference vector to the answer: fetch, rank, filter, reply *)

\* tmdb.py lines 50-61; popularity in tenths
FALLBACK_MOVIES ==
    << [id |-> "The Shawshank Redemption", popularity |-> 895, genre_ids |-> <<18, 80>>],
       [id |-> "The Godfather", popularity |-> 923, genre_ids |-> <<18, 80>>],
       [id |-> "The Dark Knight", popularity |-> 951, genre_ids |-> <<28, 80, 18>>],
       [id |-> "Inception", popularity |-> 887, genre_ids |-> <<28, 878, 53>>],
       [id |-> "Pulp Fiction", popularity |-> 872, genre_ids |-> <<80, 53>>],
       [id |-> "Forrest Gump", popularity |-> 861, genre_ids |-> <<35, 18, 10749>>],
       [id |-> "The Matrix", popularity |-> 903, genre_ids |-> <<28, 878>>],
       [id |-> "Interstellar", popularity |-> 918, genre_ids |-> <<12, 18, 878>>],
       [id |-> "Parasite", popularity |-> 889, genre_ids |-> <<35, 53, 18>>],
       [id |-> "Spirited Away", popularity |-> 875, genre_ids |-> <<16, 14>>] >>

\* tmdb.py lines 63-74; popularity in tenths
FALLBACK_TV ==
    << [id |-> "Breaking Bad", popularity |-> 914, genre_ids |-> <<18, 80>>],
       [id |-> "Game of Thrones", popularity |-> 898, genre_ids |-> <<10765, 18, 10759>>],
       [id |-> "Stranger Things", popularity |-> 932, genre_ids |-> <<10765, 9648, 18>>],
       [id |-> "The Office", popularity |-> 865, genre_ids |-> <<35>>],
       [id |-> "The Crown", popularity |-> 843, genre_ids |-> <<18>>],
       [id |-> "Friends", popularity |-> 927, genre_ids |-> <<35>>],
       [id |-> "Sherlock", popularity |-> 882, genre_ids |-> <<80, 18, 9648>>],
       [id |-> "The Mandalorian", popularity |-> 905, genre_ids |-> <<10765, 10759>>],
       [id |-> "Ted Lasso", popularity |-> 879, genre_ids |-> <<35, 18>>],
       [id |-> "Dark", popularity |-> 856, genre_ids |-> <<18, 9648, 10765>>] >>

MediaTypes == {"movie", "tv"}

\* FALLBACK_MOVIES if media_type == "movie" else FALLBACK_TV
Fallback(media_type) == IF media_type = "movie" THEN FALLBACK_MOVIES ELSE FALLBACK_TV

\* an item whose genre_ids is JSON null instead of a list
NullGenresItem == [id |-> "Z", genre_ids_null |-> TRUE, popularity |-> 800]

\* "results" of a successful provider answer
ProviderPages(media_type) ==
    IF media_type = "movie"
    THEN { <<Item("A", <<10749, 18>>, 1500), Item("B", <<27, 53>>, 500),
             Item("C", <<35>>, 1000)>>,
           <<Item("A", <<10749, 18>>, 1500), NullGenresItem>>,
           <<>> }
    ELSE { <<Item("F", <<18, 10749, 10765>>, 1000), Item("T", <<10759>>, 1100)>>,
           <<NullGenresItem>>,
           <<>> }

\* what the provider call can do
ProviderOutcomes(media_type) ==
    {[kind |-> "success", page |-> p] : p \in ProviderPages(media_type)}
      \cup {[kind |-> k, page |-> <<>>] : k \in {"timeout", "http_error", "exception", "no_key"}}

\* mutant: the movie fallback for every media type
fetch_trending_movie_fallback_only(media_type, o) ==
    IF o.kind = "success" THEN [raised |-> FALSE, value |-> o.page]
    ELSE [raised |-> FALSE, value |-> FALLBACK_MOVIES]

\* tmdb.py lines 104-144: without a key the fallback at once; the request's
\* Timeout, RequestException and any other Exception each return the fallback
fetch_trending(media_type, o) ==
    IF o.kind = "no_key" THEN [raised |-> FALSE, value |-> Fallback(media_type)]
    ELSE IF o.kind = "success" THEN [raised |-> FALSE, value |-> o.page]
    ELSE IF o.kind = "timeout" THEN [raised |-> FALSE, value |-> Fallback(media_type)]
    ELSE IF o.kind = "http_error" THEN [raised |-> FALSE, value |-> Fallback(media_type)]
    ELSE IF o.kind = "exception" THEN [raised |-> FALSE, value |-> Fallback(media_type)]
    ELSE [raised |-> TRUE, value |-> <<>>]

\* app.py lines 73-84: an empty key is sent like any other and the provider's
\* 401 is raised by raise_for_status; one handler for every Exception
fetch_trending_async(media_type, o) ==
    LET raised_in_try == o.kind \in {"timeout", "http_error", "exception", "no_key"}
    IN  IF raised_in_try THEN [raised |-> FALSE, value |-> Fallback(media_type)]
        ELSE IF o.kind = "success" THEN [raised |-> FALSE, value |-> o.page]
        ELSE [raised |-> TRUE, value |-> <<>>]

\* mutant: asyncio.gather hands the results back in completion order
gather_in_completion_order(tasks, done_order) ==
    <<tasks[done_order[1]].result, tasks[done_order[2]].result>>

\* app.py lines 157-160: asyncio.gather returns the results in argument order
gather(tasks, done_order) == <<tasks["movie"].result, tasks["tv"].result>>

\* for gid in item.get("genre_ids", []) raises TypeError on null
genre_ids_is_null(item) == "genre_ids" \notin DOMAIN item

raises_TypeError(items_) == \E i \in 1..Len(items_) : genre_ids_is_null(items_[i])

\* list[:k]
Slice(list, k) == SubSeq(list, 1, IF Len(list) < k THEN Len(list) ELSE k)

\* app.py lines 168-184, recommend.py lines 410-424: title and popularity shown
MediaItems(ranked) ==
    [i \in 1..Len(ranked) |-> [title |-> ranked[i][2].id, popularity |-> ranked[i][2].popularity]]

\* app.py lines 68-70 and 186; the lists the command line program prints
RecommendResponse(movie_items, tv_items) ==
    [kind |-> "result", movies |-> movie_items, tv |-> tv_items]

\* the command line program ends without printing recommendations
ProgramEnds(how) == [kind |-> how, movies |-> <<>>, tv |-> <<>>]

\* recommend.py lines 327-395 for one media type
context_filter(ranked, key) ==
    IF key \in strong_preference_contexts
    THEN LET filtered == primary_pass(ranked, key)
         IN  IF Len(filtered) < 5 THEN relaxed_pass(ranked, key) ELSE filtered
    ELSE ranked

\* context key and blended vector of a request: rules only for a strong pair,
\* hybrid with a negative oracle entry, and no signal at all
FlowBlends ==
    { <<<<s_romantic, s_partner>>,
        [num |-> [i \in 1..12 |-> IF i = 10 THEN 18 ELSE IF i = 6 THEN 13 ELSE 0], den |-> 31]>>,
      <<<<s_happy, s_family>>,
        [num |-> <<3, 1, 0, 2, 0, 1, 0, -1, 0, 1, 0, 3>>, den |-> 10]>>,
      <<<<s_bored, s_office>>, NoVec>> }

FlowBiases == {"popular", "underrated", "mix"}

InitFlow ==
    /\ entry \in {"service", "cli"}
    /\ pc = "blended"
    /\ \E b \in FlowBlends :
         /\ context_key = b[1]
         /\ final_pref = b[2]
         /\ current_mood = b[1][1]
         /\ watching_context = b[1][2]
         /\ weights = IF b[1] \in strong_preference_contexts
                       THEN [alpha |-> 100, beta |-> 0] ELSE [alpha |-> 85, beta |-> 15]
    /\ popularity_bias \in FlowBiases
    /\ fav_movie_genres = <<>>
    /\ favorite_genres = <<>>
    /\ model_file = "good"
    /\ ml_model = "loaded"
    /\ rule_vec = NoVec
    /\ ml_vec = NoVec
    /\ outcome = "running"
    /\ items = <<>>
    /\ ranked_items = <<>>
    /\ prev_items = <<>>
    /\ top_n = 0
    /\ filtered_items = <<>>
    /\ InitFlowVars

request_vars == <<entry, fav_movie_genres, favorite_genres, current_mood, watching_context,
                  popularity_bias, model_file, ml_model, rule_vec, ml_vec, context_key,
                  weights, final_pref>>

vectorize_vars == <<vec_item, tmdb_vec, service_vec>>

\* app.py lines 157-160: asyncio.gather schedules both fetches
ServiceGather ==
    /\ entry = "service" /\ pc = "blended"
    /\ fetch_tasks' = [t \in MediaTypes |-> [state |-> "scheduled", result |-> <<>>]]
    /\ pc' = "gather"
    /\ UNCHANGED <<request_vars, stage_vars, vectorize_vars, provider, completed, movies,
                   tv_shows, ranked_movies, ranked_tv, response, outcome>>

\* app.py lines 77-79: a task sends its request and waits for the provider
ServiceSendRequest(t) ==
    /\ entry = "service" /\ pc = "gather"
    /\ fetch_tasks[t].state = "scheduled"
    /\ fetch_tasks' = [fetch_tasks EXCEPT ![t].state = "waiting"]
    /\ UNCHANGED <<request_vars, stage_vars, vectorize_vars, provider, completed, movies,
                   tv_shows, ranked_movies, ranked_tv, response, outcome, pc>>

\* app.py lines 79-84: the provider answers or fails, the task returns
ServiceFetchReturns(t) ==
    /\ entry = "service" /\ pc = "gather"
    /\ fetch_tasks[t].state = "waiting"
    /\ \E o \in ProviderOutcomes(t) :
         /\ provider' = [provider EXCEPT ![t] = o]
         /\ fetch_tasks' = [fetch_tasks EXCEPT
                              ![t] = [state |-> IF fetch_trending_async(t, o).raised
                                                THEN "raised" ELSE "done",
                                      result |-> fetch_trending_async(t, o).value]]
    /\ completed' = Append(completed, t)
    /\ UNCHANGED <<request_vars, stage_vars, vectorize_vars, movies, tv_shows,
                   ranked_movies, ranked_tv, response, outcome, pc>>

\* app.py lines 156-161: both tasks are over, gather returns
ServiceGatherReturns ==
    /\ entry = "service" /\ pc = "gather"
    /\ \A t \in MediaTypes : fetch_tasks[t].state \in {"done", "raised"}
    /\ IF \E t \in MediaTypes : fetch_tasks[t].state = "raised"
       THEN /\ response' = RecommendResponse(<<>>, <<>>)
            /\ outcome' = "empty"
            /\ pc' = "done"
            /\ UNCHANGED <<movies, tv_shows>>
       ELSE /\ movies' = gather(fetch_tasks, completed)[1]
            /\ tv_shows' = gather(fetch_tasks, completed)[2]
            /\ pc' = "fetched"
            /\ UNCHANGED <<response, outcome>>
    /\ UNCHANGED <<request_vars, stage_vars, vectorize_vars, provider, fetch_tasks,
                   completed, ranked_movies, ranked_tv>>

\* app.py lines 164-165, and 188-190 when the vectorizer raises
ServiceRank ==
    /\ entry = "service" /\ pc = "fetched"
    /\ IF raises_TypeError(movies) \/ raises_TypeError(tv_shows)
       THEN /\ response' = RecommendResponse(<<>>, <<>>)
            /\ outcome' = "empty"
            /\ pc' = "done"
            /\ UNCHANGED <<ranked_movies, ranked_tv>>
       ELSE /\ ranked_movies' = Slice(service_rank_items(movies, final_pref), 5)
            /\ ranked_tv' = Slice(service_rank_items(tv_shows, final_pref), 5)
            /\ pc' = "top5"
            /\ UNCHANGED <<response, outcome>>
    /\ UNCHANGED <<request_vars, stage_vars, vectorize_vars, provider, fetch_tasks,
                   completed, movies, tv_shows>>

\* app.py lines 168-186
ServiceRespond ==
    /\ entry = "service" /\ pc = "top5"
    /\ response' = RecommendResponse(MediaItems(ranked_movies), MediaItems(ranked_tv))
    /\ outcome' = "ok"
    /\ pc' = "done"
    /\ UNCHANGED <<request_vars, stage_vars, vectorize_vars, provider, fetch_tasks,
                   completed, movies, tv_shows, ranked_movies, ranked_tv>>

\* recommend.py line 229
CliFetchMovies ==
    /\ entry = "cli" /\ pc = "blended"
    /\ \E o \in ProviderOutcomes("movie") :
         /\ provider' = [provider EXCEPT !["movie"] = o]
         /\ IF fetch_trending("movie", o).raised
            THEN /\ outcome' = "exit" /\ response' = ProgramEnds("exit(1)") /\ pc' = "exit"
                 /\ UNCHANGED movies
            ELSE /\ movies' = fetch_trending("movie", o).value
                 /\ pc' = "fetch_tv"
                 /\ UNCHANGED <<outcome, response>>
    /\ completed' = Append(completed, "movie")
    /\ UNCHANGED <<request_vars, stage_vars, vectorize_vars, fetch_tasks, tv_shows,
                   ranked_movies, ranked_tv>>

\* recommend.py lines 230-244: the TV fetch, the loop over tv_shows[:3] that
\* reads each show's genre_ids, and the handler that ends the program
CliFetchTv ==
    /\ entry = "cli" /\ pc = "fetch_tv"
    /\ \E o \in ProviderOutcomes("tv") :
         /\ provider' = [provider EXCEPT !["tv"] = o]
         /\ IF fetch_trending("tv", o).raised
               \/ raises_TypeError(Slice(fetch_trending("tv", o).value, 3))
            THEN /\ outcome' = "exit" /\ response' = ProgramEnds("exit(1)") /\ pc' = "exit"
            ELSE /\ pc' = "fetched"
                 /\ UNCHANGED <<outcome, response>>
         /\ tv_shows' = fetch_trending("tv", o).value
    /\ completed' = Append(completed, "tv")
    /\ UNCHANGED <<request_vars, stage_vars, vectorize_vars, fetch_tasks, movies,
                   ranked_movies, ranked_tv>>

\* recommend.py lines 249-255: no handler around rank_items
CliRank ==
    /\ entry = "cli" /\ pc = "fetched"
    /\ IF raises_TypeError(movies) \/ raises_TypeError(tv_shows)
       THEN /\ outcome' = "crashed" /\ response' = ProgramEnds("traceback") /\ pc' = "exit"
            /\ UNCHANGED <<ranked_movies, ranked_tv>>
       ELSE /\ ranked_movies' = rank_items(movies, final_pref)
            /\ ranked_tv' = rank_items(tv_shows, final_pref)
            /\ pc' = "ranked"
            /\ UNCHANGED <<outcome, response>>
    /\ UNCHANGED <<request_vars, stage_vars, vectorize_vars, provider, fetch_tasks,
                   completed, movies, tv_shows>>

\* recommend.py lines 295-296
CliDiversify ==
    /\ entry = "cli" /\ pc = "ranked"
    /\ ranked_movies' = diversify_results(ranked_movies, CliWindow)
    /\ ranked_tv' = diversify_results(ranked_tv, CliWindow)
    /\ pc' = "diversified"
    /\ UNCHANGED <<request_vars, stage_vars, vectorize_vars, provider, fetch_tasks,
                   completed, movies, tv_shows, response, outcome>>

\* recommend.py lines 321-322
CliPopularityFilter ==
    /\ entry = "cli" /\ pc = "diversified"
    /\ ranked_movies' = apply_popularity_filter(ranked_movies, popularity_bias)
    /\ ranked_tv' = apply_popularity_filter(ranked_tv, popularity_bias)
    /\ pc' = "popfiltered"
    /\ UNCHANGED <<request_vars, stage_vars, vectorize_vars, provider, fetch_tasks,
                   completed, movies, tv_shows, response, outcome>>

\* recommend.py lines 327-395
CliContextFilter ==
    /\ entry = "cli" /\ pc = "popfiltered"
    /\ ranked_movies' = context_filter(ranked_movies, context_key)
    /\ ranked_tv' = context_filter(ranked_tv, context_key)
    /\ pc' = "filtered"
    /\ UNCHANGED <<request_vars, stage_vars, vectorize_vars, provider, fetch_tasks,
                   completed, movies, tv_shows, response, outcome>>

\* recommend.py lines 397-399
CliTopFive ==
    /\ entry = "cli" /\ pc = "filtered"
    /\ ranked_movies' = Slice(ranked_movies, 5)
    /\ ranked_tv' = Slice(ranked_tv, 5)
    /\ pc' = "top5"
    /\ UNCHANGED <<request_vars, stage_vars, vectorize_vars, provider, fetch_tasks,
                   completed, movies, tv_shows, response, outcome>>

\* recommend.py lines 401-430
CliPrint ==
    /\ entry = "cli" /\ pc = "top5"
    /\ response' = RecommendResponse(MediaItems(ranked_movies), MediaItems(ranked_tv))
    /\ outcome' = "ok"
    /\ pc' = "done"
    /\ UNCHANGED <<request_vars, stage_vars, vectorize_vars, provider, fetch_tasks,
                   completed, movies, tv_shows, ranked_movies, ranked_tv>>

NextFlow ==
    \/ ServiceGather
    \/ \E t \in MediaTypes : ServiceSendRequest(t)
    \/ \E t \in MediaTypes : ServiceFetchReturns(t)
    \/ ServiceGatherReturns
    \/ ServiceRank
    \/ ServiceRespond
    \/ CliFetchMovies
    \/ CliFetchTv
    \/ CliRank
    \/ CliDiversify
    \/ CliPopularityFilter
    \/ CliContextFilter
    \/ CliTopFive
    \/ CliPrint

SpecFlow == InitFlow /\ [][NextFlow]_vars

----------------------------------------------------------------------------
(* The two copies of the item vectorizer, applied to one item *)

MaxIds == 2

\* genre identifiers of provider items: Action, Crime, Drama, two TV
\* identifiers (10763 is Drama again, 10765 is Sci-Fi) and one unknown to the table
IdPool == {28, 80, 18, 10763, 10765, 99999}

IdLists == UNION { [1..n -> IdPool] : n \in 0..MaxIds }

InitVectorize ==
    /\ entry = "vectorize"
    /\ pc = "start"
    /\ fav_movie_genres = <<>>
    /\ favorite_genres = <<>>
    /\ current_mood = <<>>
    /\ watching_context = <<>>
    /\ popularity_bias = "mix"
    /\ model_file = "good"
    /\ ml_model = "unset"
    /\ rule_vec = NoVec
    /\ ml_vec = NoVec
    /\ context_key = <<>>
    /\ weights = [alpha |-> 0, beta |-> 0]
    /\ final_pref = NoVec
    /\ outcome = "running"
    /\ items = <<>>
    /\ ranked_items = <<>>
    /\ prev_items = <<>>
    /\ top_n = 0
    /\ filtered_items = <<>>
    /\ \E l \in IdLists : vec_item = [id |-> "X", genre_ids |-> l, popularity |-> 900]
    /\ tmdb_vec = <<>>
    /\ service_vec = <<>>
    /\ provider = [movie |-> NotAsked, tv |-> NotAsked]
    /\ fetch_tasks = [movie |-> NoTask, tv |-> NoTask]
    /\ completed = <<>>
    /\ movies = <<>>
    /\ tv_shows = <<>>
    /\ ranked_movies = <<>>
    /\ ranked_tv = <<>>
    /\ response = NoResponse

\* tmdb.py lines 202-220
TmdbVectorize ==
    /\ entry = "vectorize" /\ tmdb_vec = <<>>
    /\ tmdb_vec' = build_genre_vector(vec_item)
    /\ UNCHANGED <<pipeline_vars, stage_vars, pc, popularity_bias, context_key, vec_item,
                   service_vec, provider, fetch_tasks, completed, movies, tv_shows,
                   ranked_movies, ranked_tv, response>>

\* app.py lines 86-93
ServiceVectorize ==
    /\ entry = "vectorize" /\ service_vec = <<>>
    /\ service_vec' = service_build_genre_vector(vec_item)
    /\ UNCHANGED <<pipeline_vars, stage_vars, pc, popularity_bias, context_key, vec_item,
                   tmdb_vec, provider, fetch_tasks, completed, movies, tv_shows,
                   ranked_movies, ranked_tv, response>>

NextVectorize ==
    \/ TmdbVectorize
    \/ ServiceVectorize

SpecVectorize == InitVectorize /\ [][NextVectorize]_vars

\* section 3: the expected binary vector over the taxonomy
SpecBinaryVector(item) ==
    [i \in 1..12 |-> IF GENRES[i] \in SpecItemGenres(item) THEN 1 ELSE 0]

\* C17: each copy of the vectorizer returns a vector of the taxonomy's length
\* with 1 exactly at the taxonomy genres some identifier of the item maps to
\* and 0 elsewhere (unknown identifiers ignored, repeated or collapsing
\* identifiers still 1); genre_ids [28, 80] give exactly two 1s, at Action and
\* Crime; the service copy and the tmdb copy agree.
C17_VectorizerIsBinaryIndicator ==
    /\ \A v \in {tmdb_vec, service_vec} \ {<<>>} :
         /\ Len(v) = Cardinality(SpecGenres)
         /\ v = SpecBinaryVector(vec_item)
         /\ vec_item.genre_ids = <<28, 80>> =>
              /\ {i \in 1..Len(v) : v[i] = 1} = {Idx("Action"), Idx("Crime")}
              /\ SumSeq(v) = 2
    /\ (tmdb_vec # <<>> /\ service_vec # <<>>) => tmdb_vec = service_vec

\* Drama twice, once through the TV identifier 10763: a single 1
C17_Witness ==
    /\ vec_item.genre_ids = <<18, 10763>>
    /\ tmdb_vec # <<>>
    /\ service_vec = tmdb_vec
    /\ SumSeq(tmdb_vec) = 1
    /\ tmdb_vec[Idx("Drama")] = 1

----------------------------------------------------------------------------
(* Claims about the fetch, the ranking and the answer, checked under SpecFlow *)

\* sections 4.4 and 7: the provider's data, or the fallback of the same media type
SpecFetchResult(media_type, o) ==
    IF o.kind = "success" THEN o.page
    ELSE IF media_type = "movie" THEN FALLBACK_MOVIES ELSE FALLBACK_TV

\* what the fetch of a media type returned
Fetched(media_type) ==
    IF entry = "service" THEN fetch_tasks[media_type].result
    ELSE IF media_type = "movie" THEN movies ELSE tv_shows

\* C13: in every entry point the popularity filter is the last stage before
\* the truncation to the top 5, so every returned item satisfies the requested
\* popularity bias.
C13_ReturnedItemsSatisfyBias ==
    (pc = "done" /\ response.kind = "result") =>
      /\ \A j \in 1..Len(response.movies) :
           SpecPopularityKeeps(popularity_bias, response.movies[j])
      /\ \A j \in 1..Len(response.tv) :
           SpecPopularityKeeps(popularity_bias, response.tv[j])

\* what holds of C13 in the command line program: the items it prints satisfy
\* the bias, although the context filter runs after the popularity filter
C13_CliReturnedItemsSatisfyBias ==
    (entry = "cli" /\ pc = "done") =>
      /\ \A j \in 1..Len(response.movies) :
           SpecPopularityKeeps(popularity_bias, response.movies[j])
      /\ \A j \in 1..Len(response.tv) :
           SpecPopularityKeeps(popularity_bias, response.tv[j])

\* C14: every trending fetch, for either media type and every outcome of the
\* provider call, returns a list and never raises; on any failure it returns
\* the static fallback list of the requested media type.
C14_FetchReturnsDataOrOwnFallback ==
    /\ \A t \in MediaTypes :
         provider[t].kind # "unasked" =>
           /\ Fetched(t) = SpecFetchResult(t, provider[t])
           /\ provider[t].kind # "success" => Len(Fetched(t)) = 10
           /\ entry = "service" => fetch_tasks[t].state = "done"
    /\ (entry = "cli" /\ outcome = "exit") =>
         /\ provider["tv"].kind = "success"
         /\ raises_TypeError(tv_shows)

\* the command line program: the movie fetch hits an unexpected exception, the
\* TV fetch an HTTP error, and each list is the fallback of its own type
C14_Witness ==
    /\ entry = "cli" /\ pc = "fetched"
    /\ provider["movie"].kind = "exception"
    /\ provider["tv"].kind = "http_error"
    /\ movies = FALLBACK_MOVIES
    /\ tv_shows = FALLBACK_TV
    /\ movies # tv_shows

\* C15: in the service the two fetches run concurrently and independently: for
\* every interleaving and completion order and every combination of outcomes
\* the movie result depends only on the movie fetch's outcome and the TV result
\* only on the TV fetch's outcome.
C15_FetchesAreIndependent ==
    entry = "service" =>
      /\ \A t \in MediaTypes :
           fetch_tasks[t].state = "done" =>
             fetch_tasks[t].result = SpecFetchResult(t, provider[t])
      /\ pc = "fetched" =>
           /\ movies = SpecFetchResult("movie", provider["movie"])
           /\ tv_shows = SpecFetchResult("tv", provider["tv"])

\* the TV fetch times out and completes first; the movie fetch succeeds later
\* and its data is what the ranker receives
C15_Witness ==
    /\ entry = "service" /\ pc = "fetched"
    /\ completed = <<"tv", "movie">>
    /\ provider["tv"].kind = "timeout"
    /\ provider["movie"].kind = "success"
    /\ Len(movies) = 3
    /\ movies = provider["movie"].page
    /\ tv_shows = FALLBACK_TV

\* C16: any exception raised at any step of the request flow is caught at the
\* outermost boundary and converted into a well-formed result with empty movie
\* and TV lists; no exception propagates to the caller.
C16_ExceptionsBecomeEmptyResult ==
    /\ outcome \notin {"crashed", "exit"}
    /\ response.kind \in {"none", "result"}
    /\ (pc = "done" /\ (raises_TypeError(movies) \/ raises_TypeError(tv_shows))) =>
         response = [kind |-> "result", movies |-> <<>>, tv |-> <<>>]

\* what holds of C16 in the service
C16_ServiceExceptionsBecomeEmptyResult ==
    entry = "service" =>
      /\ outcome \notin {"crashed", "exit"}
      /\ response.kind \in {"none", "result"}
      /\ (pc = "done" /\ (raises_TypeError(movies) \/ raises_TypeError(tv_shows))) =>
           response = [kind |-> "result", movies |-> <<>>, tv |-> <<>>]

====
